---------------------------- MODULE Spec2Model ----------------------------
(***************************************************************************)
(* getip: a Worker that answers each HTTP request with the caller's IP     *)
(* address and location metadata.  The model follows the fetch handler,    *)
(* the header and metadata extractors and the response builders, with the  *)
(* external rate limiter as a fixed-window counter per key.                *)
(*                                                                         *)
(* JavaScript values are tagged records; a string is a sequence of         *)
(* one-character strings, so that split, trim and "contains" are computed. *)
(***************************************************************************)
EXTENDS Naturals, Sequences, FiniteSets, TLC

(***************************************************************************)
(* Bounds of the model.                                                    *)
(***************************************************************************)
\* longest X-Forwarded-For value enumerated for getClientIp
MaxLen ==
  3
\* requests handled in one behaviour of Spec
MaxRequests ==
  2
\* readings of the clock (new Date()) a response can carry
MaxTime ==
  1

(***************************************************************************)
(* JavaScript values.                                                      *)
(***************************************************************************)
Null ==
  [t |-> "null"]
Undefined ==
  [t |-> "undefined"]
Str(s) ==
  [t |-> "string", s |-> s]
Num(n) ==
  [t |-> "number", n |-> n]
\* an object is the ordered list of its own properties
Obj(props) ==
  [t |-> "object", props |-> props]
Prop(k, v) ==
  [k |-> k, v |-> v]

\* if (v): a string is truthy when it is not empty; null and undefined are not
Truthy(v) ==
  CASE v.t = "string" -> v.s # <<>>
    [] v.t = "number" -> v.n # 0
    [] v.t = "object" -> TRUE
    [] OTHER -> FALSE

\* a ?? b
Nullish(a, b) ==
  IF a = Null \/ a = Undefined THEN b ELSE a

Keys(o) ==
  [i \in 1..Len(o.props) |-> o.props[i].k]
HasKey(o, k) ==
  \E i \in 1..Len(o.props) : o.props[i].k = k
\* o.k: undefined when the object has no such property
Get(o, k) ==
  IF HasKey(o, k)
    THEN o.props[CHOOSE i \in 1..Len(o.props) : o.props[i].k = k].v
    ELSE Undefined

(***************************************************************************)
(* Strings.                                                                *)
(***************************************************************************)
Range(s) ==
  {s[i] : i \in 1..Len(s)}

\* white space, among the characters header values are built from here
IsWhite(c) ==
  c = " "

RECURSIVE TrimStart(_)
TrimStart(s) ==
  IF s # <<>> /\ IsWhite(Head(s)) THEN TrimStart(Tail(s)) ELSE s

RECURSIVE TrimEnd(_)
TrimEnd(s) ==
  IF s # <<>> /\ IsWhite(s[Len(s)])
    THEN TrimEnd(SubSeq(s, 1, Len(s) - 1))
    ELSE s

\* String.prototype.trim
Trim(s) ==
  TrimEnd(TrimStart(s))

\* String.prototype.split(sep) for a one-character separator: the list of
\* the pieces between separators; never empty (''.split(',') is [''])
RECURSIVE SplitAcc(_, _, _)
SplitAcc(s, sep, cur) ==
  IF s = <<>> THEN <<cur>>
  ELSE IF Head(s) = sep THEN <<cur>> \o SplitAcc(Tail(s), sep, <<>>)
  ELSE SplitAcc(Tail(s), sep, Append(cur, Head(s)))

Split(s, sep) ==
  SplitAcc(s, sep, <<>>)

\* String.prototype.includes
Includes(s, sub) ==
  \E i \in 0..(Len(s) - Len(sub)) : SubSeq(s, i + 1, i + Len(sub)) = sub

(***************************************************************************)
(* Requests.  request.headers is a Headers object: a value for each header *)
(* name it holds, looked up without regard to case; Null stands for a      *)
(* header the request does not carry.                                      *)
(***************************************************************************)
HeaderNames ==
  <<"cf-connecting-ip", "user-agent", "x-forwarded-for", "x-real-ip">>

\* Headers.prototype.get(name): null when the header is absent
HeadersGet(headers, name) ==
  headers[name]

MkHeaders(cf, ua, xff, xri) ==
  [n \in Range(HeaderNames) |->
     CASE n = "cf-connecting-ip" -> cf
       [] n = "user-agent" -> ua
       [] n = "x-forwarded-for" -> xff
       [] n = "x-real-ip" -> xri]

\* mutant: the first X-Forwarded-For entry is not trimmed
GetClientIpNoTrim(request) ==
  LET cfConnectingIp == HeadersGet(request.headers, "cf-connecting-ip")
      xRealIp == HeadersGet(request.headers, "x-real-ip")
      xForwardedFor == HeadersGet(request.headers, "x-forwarded-for")
  IN IF Truthy(cfConnectingIp) THEN cfConnectingIp
     ELSE IF Truthy(xRealIp) THEN xRealIp
     ELSE IF Truthy(xForwardedFor)
       THEN Str(Split(xForwardedFor.s, ",")[1])
     ELSE Null

\* mutant: X-Real-IP is read before CF-Connecting-IP
GetClientIpRealFirst(request) ==
  LET cfConnectingIp == HeadersGet(request.headers, "cf-connecting-ip")
      xRealIp == HeadersGet(request.headers, "x-real-ip")
      xForwardedFor == HeadersGet(request.headers, "x-forwarded-for")
  IN IF Truthy(xRealIp) THEN xRealIp
     ELSE IF Truthy(cfConnectingIp) THEN cfConnectingIp
     ELSE IF Truthy(xForwardedFor)
       THEN Str(Trim(Split(xForwardedFor.s, ",")[1]))
     ELSE Null

\* mutant: a fixed address stands in for an unknown IP
GetClientIpDefault(request) ==
  LET cfConnectingIp == HeadersGet(request.headers, "cf-connecting-ip")
      xRealIp == HeadersGet(request.headers, "x-real-ip")
      xForwardedFor == HeadersGet(request.headers, "x-forwarded-for")
  IN IF Truthy(cfConnectingIp) THEN cfConnectingIp
     ELSE IF Truthy(xRealIp) THEN xRealIp
     ELSE IF Truthy(xForwardedFor)
       THEN Str(Trim(Split(xForwardedFor.s, ",")[1]))
     ELSE Str(<<"1">>)

\* mutant: X-Forwarded-For is read before the two other headers
GetClientIpForwardedFirst(request) ==
  LET cfConnectingIp == HeadersGet(request.headers, "cf-connecting-ip")
      xRealIp == HeadersGet(request.headers, "x-real-ip")
      xForwardedFor == HeadersGet(request.headers, "x-forwarded-for")
  IN IF Truthy(xForwardedFor)
       THEN Str(Trim(Split(xForwardedFor.s, ",")[1]))
     ELSE IF Truthy(cfConnectingIp) THEN cfConnectingIp
     ELSE IF Truthy(xRealIp) THEN xRealIp
     ELSE Null

\* getClientIp: CF-Connecting-IP, then X-Real-IP, then the first entry of
\* X-Forwarded-For.  split never yields an empty list, so ips[0] ?? null is
\* ips[0].
getClientIp(request) ==
  LET cfConnectingIp == HeadersGet(request.headers, "cf-connecting-ip")
      xRealIp == HeadersGet(request.headers, "x-real-ip")
      xForwardedFor == HeadersGet(request.headers, "x-forwarded-for")
  IN IF Truthy(cfConnectingIp) THEN cfConnectingIp
     ELSE IF Truthy(xRealIp) THEN xRealIp
     ELSE IF Truthy(xForwardedFor)
       THEN LET ips == [i \in 1..Len(Split(xForwardedFor.s, ",")) |->
                          Trim(Split(xForwardedFor.s, ",")[i])]
            IN Nullish(Str(ips[1]), Null)
     ELSE Null

(***************************************************************************)
(* The string literals of the response builders, character by character.   *)
(***************************************************************************)
\* "*"
STAR ==
  <<"*">>
\* "GET, OPTIONS"
GET_OPTIONS ==
  <<"G","E","T",","," ","O","P","T","I","O","N","S">>
\* "Content-Type"
CONTENT_TYPE ==
  <<"C","o","n","t","e","n","t","-","T","y","p","e">>
\* "86400"
MAX_AGE ==
  <<"8","6","4","0","0">>
\* "application/json;charset=UTF-8"
JSON_UTF8 ==
  <<"a","p","p","l","i","c","a","t","i","o","n","/","j","s","o","n",";",
    "c","h","a","r","s","e","t","=","U","T","F","-","8">>
\* "text/plain;charset=UTF-8"
TEXT_UTF8 ==
  <<"t","e","x","t","/","p","l","a","i","n",";","c","h","a","r","s","e",
    "t","=","U","T","F","-","8">>
\* "no-store, no-cache, must-revalidate, proxy-revalidate"
NO_STORE ==
  <<"n","o","-","s","t","o","r","e",","," ","n","o","-","c","a","c","h",
    "e",","," ","m","u","s","t","-","r","e","v","a","l","i","d","a","t",
    "e",","," ","p","r","o","x","y","-","r","e","v","a","l","i","d","a",
    "t","e">>
\* "no-cache"
NO_CACHE ==
  <<"n","o","-","c","a","c","h","e">>
\* "0"
ZERO ==
  <<"0">>
\* "Rate limit exceeded. Maximum 60 requests per minute allowed."
MSG_RATE_LIMIT ==
  <<"R","a","t","e"," ","l","i","m","i","t"," ","e","x","c","e","e","d",
    "e","d","."," ","M","a","x","i","m","u","m"," ","6","0"," ","r","e",
    "q","u","e","s","t","s"," ","p","e","r"," ","m","i","n","u","t","e",
    " ","a","l","l","o","w","e","d",".">>
\* "Method not allowed. Only GET requests are supported."
MSG_METHOD ==
  <<"M","e","t","h","o","d"," ","n","o","t"," ","a","l","l","o","w","e",
    "d","."," ","O","n","l","y"," ","G","E","T"," ","r","e","q","u","e",
    "s","t","s"," ","a","r","e"," ","s","u","p","p","o","r","t","e","d",
    ".">>
\* "Not found. Available paths: / (IP + location lookup), /simple (IP only), and /debug (full headers + CF metadata dump)."
MSG_NOT_FOUND ==
  <<"N","o","t"," ","f","o","u","n","d","."," ","A","v","a","i","l","a",
    "b","l","e"," ","p","a","t","h","s",":"," ","/"," ","(","I","P"," ",
    "+"," ","l","o","c","a","t","i","o","n"," ","l","o","o","k","u","p",
    ")",","," ","/","s","i","m","p","l","e"," ","(","I","P"," ","o","n",
    "l","y",")",","," ","a","n","d"," ","/","d","e","b","u","g"," ","(",
    "f","u","l","l"," ","h","e","a","d","e","r","s"," ","+"," ","C","F",
    " ","m","e","t","a","d","a","t","a"," ","d","u","m","p",")",".">>

(***************************************************************************)
(* Conversions.                                                            *)
(***************************************************************************)
DigitChars ==
  <<"0", "1", "2", "3", "4", "5", "6", "7", "8", "9">>

\* Number.prototype.toString for a natural number: its decimal digits
RECURSIVE NumberToString(_)
NumberToString(n) ==
  IF n < 10 THEN <<DigitChars[n + 1]>>
  ELSE NumberToString(n \div 10) \o <<DigitChars[(n % 10) + 1]>>

\* new Date().toISOString() at clock reading now
toISOString(now) ==
  Str(<<"T">> \o NumberToString(now))

\* JSON.stringify(data, null, 2).  The JSON text is represented by the value
\* it denotes: a property whose value is undefined is left out, the others
\* keep their order, and nested objects are serialised the same way.
RECURSIVE JSONvalue(_)
JSONvalue(v) ==
  IF v.t = "object"
    THEN LET kept == SelectSeq(v.props, LAMBDA p : p.v # Undefined)
         IN Obj([i \in 1..Len(kept) |-> Prop(kept[i].k, JSONvalue(kept[i].v))])
    ELSE v

JSONstringify(data) ==
  [t |-> "json", value |-> JSONvalue(data)]

(***************************************************************************)
(* Responses: status, headers (name to value) and body.                    *)
(***************************************************************************)
NoBody ==
  [kind |-> "none"]
TextBody(s) ==
  [kind |-> "text", text |-> s]
JsonBody(v) ==
  [kind |-> "json", value |-> v]

\* new Response(body, {status, headers}): a null body is no body at all
NewResponse(body, status, headers) ==
  [status |-> status,
   headers |-> headers,
   body |-> CASE body.t = "null" -> NoBody
              [] body.t = "string" -> TextBody(body.s)
              [] body.t = "json" -> JsonBody(body.value)]

\* what response.text() yields for a body that is not JSON
BodyText(response) ==
  IF response.body.kind = "text" THEN response.body.text ELSE <<>>

\* mutant: the JSON answers carry no Access-Control-Allow-Origin
CreateJsonResponseNoCors(data, status) ==
  NewResponse(JSONstringify(data), status,
    ("Content-Type" :> JSON_UTF8)
    @@ ("Access-Control-Allow-Methods" :> GET_OPTIONS)
    @@ ("Access-Control-Allow-Headers" :> CONTENT_TYPE)
    @@ ("Cache-Control" :> NO_STORE)
    @@ ("Pragma" :> NO_CACHE)
    @@ ("Expires" :> ZERO))

createJsonResponse(data, status) ==
  NewResponse(JSONstringify(data), status,
    ("Content-Type" :> JSON_UTF8)
    @@ ("Access-Control-Allow-Origin" :> STAR)
    @@ ("Access-Control-Allow-Methods" :> GET_OPTIONS)
    @@ ("Access-Control-Allow-Headers" :> CONTENT_TYPE)
    @@ ("Cache-Control" :> NO_STORE)
    @@ ("Pragma" :> NO_CACHE)
    @@ ("Expires" :> ZERO))

\* mutant: the IP is serialised as JSON
CreateSimpleResponseJson(ip) ==
  NewResponse(JSONstringify(ip), 200,
    ("Content-Type" :> TEXT_UTF8)
    @@ ("Access-Control-Allow-Origin" :> STAR))

\* no status is given: a Response has status 200 by default
createSimpleResponse(ip) ==
  NewResponse(ip, 200,
    ("Content-Type" :> TEXT_UTF8)
    @@ ("Access-Control-Allow-Origin" :> STAR))

\* mutant: the preflight answer gives no Access-Control-Max-Age
HandleOptionsNoMaxAge ==
  NewResponse(Null, 204,
    ("Access-Control-Allow-Origin" :> STAR)
    @@ ("Access-Control-Allow-Methods" :> GET_OPTIONS)
    @@ ("Access-Control-Allow-Headers" :> CONTENT_TYPE))

handleOptions ==
  NewResponse(Null, 204,
    ("Access-Control-Allow-Origin" :> STAR)
    @@ ("Access-Control-Allow-Methods" :> GET_OPTIONS)
    @@ ("Access-Control-Allow-Headers" :> CONTENT_TYPE)
    @@ ("Access-Control-Max-Age" :> MAX_AGE))

\* mutant: the 429 is built like the other JSON errors, without Retry-After
CreateRateLimitNoRetryAfter(retryAfterSeconds, now) ==
  createJsonResponse(Obj(<<Prop("error", Str(MSG_RATE_LIMIT)),
                           Prop("timestamp", toISOString(now))>>), 429)

createRateLimitResponse(retryAfterSeconds, now) ==
  LET errorResponse == Obj(<<Prop("error", Str(MSG_RATE_LIMIT)),
                             Prop("timestamp", toISOString(now))>>)
  IN NewResponse(JSONstringify(errorResponse), 429,
       ("Content-Type" :> JSON_UTF8)
       @@ ("Retry-After" :> NumberToString(retryAfterSeconds))
       @@ ("Access-Control-Allow-Origin" :> STAR))

\* { ip, ...locationData, timestamp }
createIpSuccessResponse(ip, locationData, now) ==
  LET response == Obj(<<Prop("ip", ip)>> \o locationData.props
                      \o <<Prop("timestamp", toISOString(now))>>)
  IN createJsonResponse(response, 200)

\* mutant: the 405 is built like the other JSON errors, without Allow
CreateMethodNotAllowedNoAllow(now) ==
  createJsonResponse(Obj(<<Prop("error", Str(MSG_METHOD)),
                           Prop("timestamp", toISOString(now))>>), 405)

\* mutant: the 405 names the method in a third field of its body
CreateMethodNotAllowedVerbose(now) ==
  LET errorResponse == Obj(<<Prop("error", Str(MSG_METHOD)),
                             Prop("method", Str(<<"P", "O", "S", "T">>)),
                             Prop("timestamp", toISOString(now))>>)
  IN NewResponse(JSONstringify(errorResponse), 405,
       ("Content-Type" :> JSON_UTF8)
       @@ ("Access-Control-Allow-Origin" :> STAR)
       @@ ("Access-Control-Allow-Methods" :> GET_OPTIONS)
       @@ ("Access-Control-Allow-Headers" :> CONTENT_TYPE)
       @@ ("Allow" :> GET_OPTIONS)
       @@ ("Cache-Control" :> NO_STORE)
       @@ ("Pragma" :> NO_CACHE)
       @@ ("Expires" :> ZERO))

createMethodNotAllowedResponse(now) ==
  LET errorResponse == Obj(<<Prop("error", Str(MSG_METHOD)),
                             Prop("timestamp", toISOString(now))>>)
  IN NewResponse(JSONstringify(errorResponse), 405,
       ("Content-Type" :> JSON_UTF8)
       @@ ("Access-Control-Allow-Origin" :> STAR)
       @@ ("Access-Control-Allow-Methods" :> GET_OPTIONS)
       @@ ("Access-Control-Allow-Headers" :> CONTENT_TYPE)
       @@ ("Allow" :> GET_OPTIONS)
       @@ ("Cache-Control" :> NO_STORE)
       @@ ("Pragma" :> NO_CACHE)
       @@ ("Expires" :> ZERO))

\* "Not found. Only root path (/) is available."
MSG_ROOT_ONLY ==
  <<"N","o","t"," ","f","o","u","n","d","."," ","O","n","l","y"," ","r",
    "o","o","t"," ","p","a","t","h"," ","(","/",")"," ","i","s"," ","a",
    "v","a","i","l","a","b","l","e",".">>

\* mutant: the 404 names the root path only
CreateNotFoundRootOnly(now) ==
  createJsonResponse(Obj(<<Prop("error", Str(MSG_ROOT_ONLY)),
                           Prop("timestamp", toISOString(now))>>), 404)

createNotFoundResponse(now) ==
  LET errorResponse == Obj(<<Prop("error", Str(MSG_NOT_FOUND)),
                             Prop("timestamp", toISOString(now))>>)
  IN createJsonResponse(errorResponse, 404)

createDebugResponse(headers, cf, now) ==
  LET debugData == Obj(<<Prop("headers", headers),
                         Prop("cf", cf),
                         Prop("timestamp", toISOString(now))>>)
  IN NewResponse(JSONstringify(debugData), 200,
       ("Content-Type" :> JSON_UTF8)
       @@ ("Access-Control-Allow-Origin" :> STAR)
       @@ ("Access-Control-Allow-Methods" :> GET_OPTIONS)
       @@ ("Access-Control-Allow-Headers" :> CONTENT_TYPE)
       @@ ("Cache-Control" :> NO_STORE)
       @@ ("Pragma" :> NO_CACHE)
       @@ ("Expires" :> ZERO))

(***************************************************************************)
(* Extractors.                                                             *)
(***************************************************************************)
\* mutant: only the three IP headers are read, each with get()
GetAllHeadersIpOnly(request) ==
  Obj(<<Prop("cf-connecting-ip",
             HeadersGet(request.headers, "cf-connecting-ip")),
        Prop("x-real-ip", HeadersGet(request.headers, "x-real-ip")),
        Prop("x-forwarded-for",
             HeadersGet(request.headers, "x-forwarded-for"))>>)

\* Object.fromEntries(request.headers): one property per header the request
\* carries, in the order a Headers object iterates (sorted by name)
getAllHeaders(request) ==
  LET present == SelectSeq(HeaderNames,
                   LAMBDA n : HeadersGet(request.headers, n) # Null)
  IN Obj([i \in 1..Len(present) |->
            Prop(present[i], HeadersGet(request.headers, present[i]))])

LocationFields ==
  <<"country", "city", "region", "regionCode", "latitude", "longitude",
    "postalCode", "timezone", "continent", "asn", "asOrganization">>

\* mutant: the fields are read without the ?? null default
GetLocationDataNoDefault(cf) ==
  IF ~Truthy(cf)
    THEN Obj([i \in 1..Len(LocationFields) |-> Prop(LocationFields[i], Null)])
    ELSE Obj([i \in 1..Len(LocationFields) |->
                Prop(LocationFields[i], Get(cf, LocationFields[i]))])

\* mutant: without cf.city nothing is read from the metadata
GetLocationDataCoupled(cf) ==
  IF ~Truthy(cf) \/ Get(cf, "city") = Undefined
    THEN Obj([i \in 1..Len(LocationFields) |-> Prop(LocationFields[i], Null)])
    ELSE Obj([i \in 1..Len(LocationFields) |->
                Prop(LocationFields[i], Nullish(Get(cf, LocationFields[i]), Null))])

\* getLocationData: every field null without request.cf, else cf.f ?? null
getLocationData(cf) ==
  IF ~Truthy(cf)
    THEN Obj([i \in 1..Len(LocationFields) |-> Prop(LocationFields[i], Null)])
    ELSE Obj([i \in 1..Len(LocationFields) |->
                Prop(LocationFields[i], Nullish(Get(cf, LocationFields[i]), Null))])

(***************************************************************************)
(* The rate limiter binding (env.IP_RATE_LIMITER): a fixed-window counter  *)
(* per key, 60 acquisitions per window.                                    *)
(***************************************************************************)
Quota ==
  60

\* limit({ key }): one atomic check-and-increment; the new counter and
\* whether the acquisition succeeded
LimiterLimit(counter, key) ==
  IF counter[key] < Quota
    THEN [success |-> TRUE, counter |-> [counter EXCEPT ![key] = @ + 1]]
    ELSE [success |-> FALSE, counter |-> counter]

(***************************************************************************)
(* The requests the model sends.                                           *)
(***************************************************************************)
Methods ==
  {"GET", "OPTIONS", "POST", "HEAD"}

\* url.pathname
Paths ==
  {"/", "/simple", "/debug", "/api/ip"}

IP1 ==
  Str(<<"1">>)
IP2 ==
  Str(<<"2">>)

XFF_TWO ==
  Str(<<"2", " ", ",", "1">>)
XFF_EMPTY_FIRST ==
  Str(<<",", "1">>)
USER_AGENT ==
  Str(<<"u">>)

\* no IP header; each of the three alone; CF-Connecting-IP beside the other
\* two; an X-Forwarded-For value whose first entry is empty
HeaderSamples ==
  {MkHeaders(Null, USER_AGENT, Null, Null),
   MkHeaders(IP1, USER_AGENT, Null, Null),
   MkHeaders(IP1, USER_AGENT, XFF_TWO, IP2),
   MkHeaders(Null, USER_AGENT, Null, IP2),
   MkHeaders(Null, USER_AGENT, XFF_TWO, Null),
   MkHeaders(Null, USER_AGENT, XFF_EMPTY_FIRST, Null)}

\* request.cf: absent (not behind the edge), or present with some of the
\* location fields and a field the handler does not read
CfSamples ==
  {Undefined,
   Obj(<<Prop("colo", Str(<<"S">>)), Prop("asn", Num(7)),
         Prop("country", Str(<<"U">>))>>)}

Requests ==
  [method : Methods, pathname : Paths, headers : HeaderSamples, cf : CfSamples]

\* the keys the limiter can be asked about
LimiterKeys ==
  {IP1.s, IP2.s}

Times ==
  0..MaxTime

(***************************************************************************)
(* State.  Each slot is one invocation of fetch: the platform runs any     *)
(* number of them, and an invocation is suspended only at its await.       *)
(***************************************************************************)
NumSlots ==
  2
Slots ==
  1..NumSlots
\* the slots Spec uses: it handles one request after the other
SeqSlots ==
  {1}

NoRequest ==
  [method |-> "none"]
NoResponse ==
  [status |-> 0]

VARIABLES
  request,   \* request[s]: the request slot s is handling, or handled last
  pc,        \* pc[s]: "idle", "limit" (awaiting the limiter), "done",
             \* "failed" (fetch threw)
  ip,        \* ip[s]: the handler's local ip
  limited,   \* limited[s]: the keys this invocation passed to limit(), in order
  success,   \* success[s]: the limiter's answers to this invocation, in order
  response,  \* response[s]: the Response returned, or NoResponse
  counter,   \* counter[k]: acquisitions of key k in the current window
  handled    \* number of requests received so far

vars ==
  <<request, pc, ip, limited, success, response, counter, handled>>

(***************************************************************************)
(* The fetch handler.                                                      *)
(***************************************************************************)
\* the method checks: OPTIONS first, then anything that is not GET
MethodRoute(method) ==
  IF method = "OPTIONS" THEN "options"
  ELSE IF method # "GET" THEN "methodNotAllowed"
  ELSE "get"

\* the path of a GET request selects the behaviour
PathRoute(pathname) ==
  IF pathname = "/debug" THEN "debug"
  ELSE IF pathname = "/" THEN "root"
  ELSE IF pathname = "/simple" THEN "simple"
  ELSE "notFound"

\* mutant: the path is checked before the method
RoutePathFirst(req) ==
  IF PathRoute(req.pathname) = "notFound" THEN "notFound"
  ELSE IF MethodRoute(req.method) = "get" THEN PathRoute(req.pathname)
  ELSE MethodRoute(req.method)

Route(req) ==
  IF MethodRoute(req.method) = "get"
    THEN PathRoute(req.pathname)
    ELSE MethodRoute(req.method)

\* the response of the behaviours that need neither the ip nor the limiter
Respond(route, req, now) ==
  CASE route = "methodNotAllowed" -> createMethodNotAllowedResponse(now)
    [] route = "debug" ->
         createDebugResponse(getAllHeaders(req), req.cf, now)
    [] route = "simple" -> createSimpleResponse(getClientIp(req))
    [] route = "notFound" -> createNotFoundResponse(now)

\* the response of GET / once the limiter was passed or skipped
RootResponse(req, clientIp, now) ==
  createIpSuccessResponse(clientIp, getLocationData(req.cf), now)

\* mutant: the isolate remembers a rejection and repeats it for GET / without
\* asking the limiter again
FetchLatched(s, req, now) ==
  /\ pc[s] \in {"idle", "done"}
  /\ handled' = handled + 1
  /\ request' = [request EXCEPT ![s] = req]
  /\ success' = [success EXCEPT ![s] = <<>>]
  /\ counter' = counter
  /\ LET route == Route(req)
         clientIp == IF route = "root" THEN getClientIp(req) ELSE Undefined
     IN /\ ip' = [ip EXCEPT ![s] = clientIp]
        /\ IF route = "root" /\ Truthy(clientIp) /\ response[s].status # 429
             THEN /\ limited' = [limited EXCEPT ![s] = <<clientIp.s>>]
                  /\ response' = [response EXCEPT ![s] = NoResponse]
                  /\ pc' = [pc EXCEPT ![s] = "limit"]
             ELSE /\ limited' = [limited EXCEPT ![s] = <<>>]
                  /\ response' = [response EXCEPT ![s] =
                       IF route = "options" THEN handleOptions
                       ELSE IF route = "root" /\ response[s].status = 429
                         THEN createRateLimitResponse(60, now)
                       ELSE IF route = "root"
                         THEN RootResponse(req, clientIp, now)
                       ELSE Respond(route, req, now)]
                  /\ pc' = [pc EXCEPT ![s] = "done"]

\* mutant: the limiter is asked before the method and the path are looked at
FetchLimitFirst(s, req, now) ==
  /\ pc[s] \in {"idle", "done"}
  /\ handled' = handled + 1
  /\ request' = [request EXCEPT ![s] = req]
  /\ success' = [success EXCEPT ![s] = <<>>]
  /\ counter' = counter
  /\ LET clientIp == getClientIp(req)
     IN /\ ip' = [ip EXCEPT ![s] = clientIp]
        /\ IF Truthy(clientIp)
             THEN /\ limited' = [limited EXCEPT ![s] = <<clientIp.s>>]
                  /\ response' = [response EXCEPT ![s] = NoResponse]
                  /\ pc' = [pc EXCEPT ![s] = "limit"]
             ELSE /\ limited' = [limited EXCEPT ![s] = <<>>]
                  /\ response' = [response EXCEPT ![s] =
                       IF Route(req) = "options" THEN handleOptions
                       ELSE IF Route(req) = "root"
                         THEN RootResponse(req, clientIp, now)
                       ELSE Respond(Route(req), req, now)]
                  /\ pc' = [pc EXCEPT ![s] = "done"]

\* mutant: GET / is answered without asking the limiter
FetchUnlimited(s, req, now) ==
  /\ pc[s] \in {"idle", "done"}
  /\ handled' = handled + 1
  /\ request' = [request EXCEPT ![s] = req]
  /\ success' = [success EXCEPT ![s] = <<>>]
  /\ counter' = counter
  /\ LET route == Route(req)
         clientIp == IF route = "root" THEN getClientIp(req) ELSE Undefined
     IN /\ ip' = [ip EXCEPT ![s] = clientIp]
        /\ limited' = [limited EXCEPT ![s] = <<>>]
        /\ response' = [response EXCEPT ![s] =
             IF route = "options" THEN handleOptions
             ELSE IF route = "root" THEN RootResponse(req, clientIp, now)
             ELSE Respond(route, req, now)]
        /\ pc' = [pc EXCEPT ![s] = "done"]

\* fetch up to its await: every behaviour but GET / with a resolved ip
\* returns at once; that one calls the limiter with the ip as the key
Fetch(s, req, now) ==
  /\ pc[s] \in {"idle", "done", "failed"}
  /\ handled' = handled + 1
  /\ request' = [request EXCEPT ![s] = req]
  /\ success' = [success EXCEPT ![s] = <<>>]
  /\ counter' = counter
  /\ LET route == Route(req)
         clientIp == IF route = "root" THEN getClientIp(req) ELSE Undefined
     IN /\ ip' = [ip EXCEPT ![s] = clientIp]
        /\ IF route = "root" /\ Truthy(clientIp)
             THEN /\ limited' = [limited EXCEPT ![s] = <<clientIp.s>>]
                  /\ response' = [response EXCEPT ![s] = NoResponse]
                  /\ pc' = [pc EXCEPT ![s] = "limit"]
             ELSE /\ limited' = [limited EXCEPT ![s] = <<>>]
                  /\ response' = [response EXCEPT ![s] =
                       IF route = "options" THEN handleOptions
                       ELSE IF route = "root"
                         THEN RootResponse(req, clientIp, now)
                       ELSE Respond(route, req, now)]
                  /\ pc' = [pc EXCEPT ![s] = "done"]

\* mutant: the limiter's answer is not looked at
LimitReturnsIgnored(s, now) ==
  /\ pc[s] = "limit"
  /\ LET r == LimiterLimit(counter, ip[s].s)
     IN /\ counter' = r.counter
        /\ success' = [success EXCEPT ![s] = Append(@, r.success)]
        /\ response' = [response EXCEPT ![s] =
                          RootResponse(request[s], ip[s], now)]
  /\ pc' = [pc EXCEPT ![s] = "done"]
  /\ UNCHANGED <<request, ip, limited, handled>>

\* mutant: the 200 reports what is left of the quota
LimitReturnsRemaining(s, now) ==
  /\ pc[s] = "limit"
  /\ LET r == LimiterLimit(counter, ip[s].s)
         ok == RootResponse(request[s], ip[s], now)
     IN /\ counter' = r.counter
        /\ success' = [success EXCEPT ![s] = Append(@, r.success)]
        /\ response' = [response EXCEPT ![s] =
                          IF ~r.success
                            THEN createRateLimitResponse(60, now)
                            ELSE [ok EXCEPT !.headers =
                                    @ @@ ("X-RateLimit-Remaining" :>
                                      NumberToString(Quota - r.counter[ip[s].s]))]]
  /\ pc' = [pc EXCEPT ![s] = "done"]
  /\ UNCHANGED <<request, ip, limited, handled>>

\* mutant: every address is counted under one key
LimitReturnsOneKey(s, now) ==
  /\ pc[s] = "limit"
  /\ LET r == LimiterLimit(counter, IP1.s)
     IN /\ counter' = r.counter
        /\ success' = [success EXCEPT ![s] = Append(@, r.success)]
        /\ response' = [response EXCEPT ![s] =
                          IF ~r.success
                            THEN createRateLimitResponse(60, now)
                            ELSE RootResponse(request[s], ip[s], now)]
  /\ pc' = [pc EXCEPT ![s] = "done"]
  /\ UNCHANGED <<request, ip, limited, handled>>

\* mutant: a rejected request is not answered; the handler asks again
LimitReturnsRetry(s, now) ==
  /\ pc[s] = "limit"
  /\ LET r == LimiterLimit(counter, ip[s].s)
     IN IF r.success
          THEN /\ counter' = r.counter
               /\ success' = [success EXCEPT ![s] = Append(@, r.success)]
               /\ response' = [response EXCEPT ![s] =
                                 RootResponse(request[s], ip[s], now)]
               /\ pc' = [pc EXCEPT ![s] = "done"]
          ELSE UNCHANGED <<counter, success, response, pc>>
  /\ UNCHANGED <<request, ip, limited, handled>>

\* the limiter answers and fetch runs to its return
LimitReturns(s, now) ==
  /\ pc[s] = "limit"
  /\ LET r == LimiterLimit(counter, ip[s].s)
     IN /\ counter' = r.counter
        /\ success' = [success EXCEPT ![s] = Append(@, r.success)]
        /\ response' = [response EXCEPT ![s] =
                          IF ~r.success
                            THEN createRateLimitResponse(60, now)
                            ELSE RootResponse(request[s], ip[s], now)]
  /\ pc' = [pc EXCEPT ![s] = "done"]
  /\ UNCHANGED <<request, ip, limited, handled>>

\* mutant: the rejection of limit() is caught and the request is served
LimitThrowsFailOpen(s) ==
  /\ pc[s] = "limit"
  /\ \E now \in Times :
       response' = [response EXCEPT ![s] =
                      RootResponse(request[s], ip[s], now)]
  /\ pc' = [pc EXCEPT ![s] = "done"]
  /\ counter' \in {counter, LimiterLimit(counter, ip[s].s).counter}
  /\ UNCHANGED <<request, ip, limited, success, handled>>

\* limit() rejects: the await throws, nothing catches it, and fetch ends
\* without a Response; whether the failed call was counted is not known
LimitThrows(s) ==
  /\ pc[s] = "limit"
  /\ pc' = [pc EXCEPT ![s] = "failed"]
  /\ counter' \in {counter, LimiterLimit(counter, ip[s].s).counter}
  /\ UNCHANGED <<request, ip, limited, success, response, handled>>

\* a fresh window of the limiter starts
WindowReset ==
  /\ \E k \in LimiterKeys : counter[k] > 0
  /\ counter' = [k \in LimiterKeys |-> 0]
  /\ UNCHANGED <<request, pc, ip, limited, success, response, handled>>

\* no request yet; the limiter's window may be fresh or nearly used up by
\* earlier traffic
Init ==
  /\ request = [s \in Slots |-> NoRequest]
  /\ pc = [s \in Slots |-> "idle"]
  /\ ip = [s \in Slots |-> Undefined]
  /\ limited = [s \in Slots |-> <<>>]
  /\ success = [s \in Slots |-> <<>>]
  /\ response = [s \in Slots |-> NoResponse]
  /\ counter \in [LimiterKeys -> {0, Quota - 1}]
  /\ handled = 0

Next ==
  \/ /\ handled < MaxRequests
     /\ \E s \in SeqSlots, req \in Requests, now \in Times :
          Fetch(s, req, now)
  \/ \E s \in SeqSlots, now \in Times : LimitReturns(s, now)
  \/ WindowReset

Spec ==
  Init /\ [][Next]_vars

(***************************************************************************)
(* getClientIp on its own: every combination of absent, empty and present  *)
(* CF-Connecting-IP and X-Real-IP, and every X-Forwarded-For value of up   *)
(* to MaxLen characters over digits, comma and space.                      *)
(***************************************************************************)
Alphabet ==
  {"1", "2", ",", " "}

Strings(n) ==
  UNION {[1..k -> Alphabet] : k \in 0..n}

IpHeaderInputs ==
  {MkHeaders(cf, Null, xff, xri) :
     cf \in {Null, Str(<<>>), IP1},
     xff \in {Null} \cup {Str(v) : v \in Strings(MaxLen)},
     xri \in {Null, Str(<<>>), IP2}}

InitIp ==
  /\ \E h \in IpHeaderInputs :
       request = [s \in Slots |->
                    [method |-> "GET", pathname |-> "/", headers |-> h,
                     cf |-> Undefined]]
  /\ pc = [s \in Slots |-> "idle"]
  /\ ip = [s \in Slots |-> Undefined]
  /\ limited = [s \in Slots |-> <<>>]
  /\ success = [s \in Slots |-> <<>>]
  /\ response = [s \in Slots |-> NoResponse]
  /\ counter = [k \in LimiterKeys |-> 0]
  /\ handled = 0

\* const ip = getClientIp(request)
ResolveIp(s) ==
  /\ pc[s] = "idle"
  /\ ip' = [ip EXCEPT ![s] = getClientIp(request[s])]
  /\ pc' = [pc EXCEPT ![s] = "resolved"]
  /\ UNCHANGED <<request, limited, success, response, counter, handled>>

NextIp ==
  \E s \in SeqSlots : ResolveIp(s)

SpecIp ==
  InitIp /\ [][NextIp]_vars

(***************************************************************************)
(* The sequential test of examples/ratelimit-test.ts: bursts of 65 GET /   *)
(* requests from one address, each awaited before the next is sent, and a  *)
(* wait for the limiter's window to end between two bursts.                *)
(***************************************************************************)
BurstSize ==
  65
\* bursts sent in one behaviour of SpecBurst
MaxBursts ==
  2

\* GET / from the address of the test client
BurstRequests ==
  {r \in Requests :
     r.method = "GET" /\ r.pathname = "/" /\ getClientIp(r) = IP1}

InitBurst ==
  /\ request = [s \in Slots |-> NoRequest]
  /\ pc = [s \in Slots |-> "idle"]
  /\ ip = [s \in Slots |-> Undefined]
  /\ limited = [s \in Slots |-> <<>>]
  /\ success = [s \in Slots |-> <<>>]
  /\ response = [s \in Slots |-> NoResponse]
  /\ counter = [k \in LimiterKeys |-> 0]
  /\ handled = 0

\* a burst is over: the client has its last answer
BurstOver ==
  /\ handled > 0
  /\ handled % BurstSize = 0
  /\ \A s \in SeqSlots : pc[s] = "done"

\* makeRequest(i): the next request of a burst; a new burst starts in a
\* fresh window
BurstFetch(s, req, now) ==
  /\ handled < MaxBursts * BurstSize
  /\ BurstOver => \A k \in LimiterKeys : counter[k] = 0
  /\ Fetch(s, req, now)

\* the client waits for the window to end
BurstWait ==
  /\ BurstOver
  /\ WindowReset

NextBurst ==
  \/ \E s \in SeqSlots, req \in BurstRequests, now \in Times :
       BurstFetch(s, req, now)
  \/ \E s \in SeqSlots, now \in Times : LimitReturns(s, now)
  \/ BurstWait

SpecBurst ==
  InitBurst /\ [][NextBurst]_vars

(***************************************************************************)
(* Concurrent invocations inside one window, as the parallel test of       *)
(* examples/ratelimit-test.ts sends them: every slot handles one request,  *)
(* and the invocations interleave at their await.                          *)
(***************************************************************************)
\* GET / from two addresses, and GET /simple and POST / beside them
ConcRequests ==
  {r \in Requests :
     /\ r.cf = Undefined
     /\ r.headers \in {MkHeaders(IP1, USER_AGENT, Null, Null),
                       MkHeaders(Null, USER_AGENT, Null, IP2)}
     /\ \/ r.method = "GET" /\ r.pathname \in {"/", "/simple"}
        \/ r.method = "POST" /\ r.pathname = "/"}

\* the acquisitions earlier traffic has made of each key in the window
ConcStart ==
  Quota - 1

InitConc ==
  /\ request = [s \in Slots |-> NoRequest]
  /\ pc = [s \in Slots |-> "idle"]
  /\ ip = [s \in Slots |-> Undefined]
  /\ limited = [s \in Slots |-> <<>>]
  /\ success = [s \in Slots |-> <<>>]
  /\ response = [s \in Slots |-> NoResponse]
  /\ counter = [k \in LimiterKeys |-> ConcStart]
  /\ handled = 0

\* the platform invokes fetch for a new request while others are suspended
ConcFetch(s, req, now) ==
  /\ pc[s] = "idle"
  /\ Fetch(s, req, now)

NextConc ==
  \/ \E s \in Slots, req \in ConcRequests, now \in Times :
       ConcFetch(s, req, now)
  \/ \E s \in Slots, now \in Times : LimitReturns(s, now)

SpecConc ==
  InitConc /\ [][NextConc]_vars

(***************************************************************************)
(* getLocationData on its own: GET / without an IP header (the limiter is  *)
(* skipped), with request.cf absent or holding any subset of the six       *)
(* location fields of the response type.                                   *)
(***************************************************************************)
ReliableFields ==
  {"asn", "asOrganization", "city", "region", "country", "timezone"}

\* a metadata object with all six fields
CF_FULL ==
  <<Prop("country", Str(<<"U">>)), Prop("city", Str(<<"C">>)),
    Prop("region", Str(<<"R">>)), Prop("timezone", Str(<<"T">>)),
    Prop("asn", Num(7)), Prop("asOrganization", Str(<<"O">>))>>

CfInputs ==
  {Undefined}
  \cup {Obj(SelectSeq(CF_FULL, LAMBDA p : p.k \in present)) :
          present \in SUBSET ReliableFields}

InitLoc ==
  /\ \E cf \in CfInputs :
       request = [s \in Slots |->
                    [method |-> "GET", pathname |-> "/",
                     headers |-> MkHeaders(Null, USER_AGENT, Null, Null),
                     cf |-> cf]]
  /\ pc = [s \in Slots |-> "idle"]
  /\ ip = [s \in Slots |-> Undefined]
  /\ limited = [s \in Slots |-> <<>>]
  /\ success = [s \in Slots |-> <<>>]
  /\ response = [s \in Slots |-> NoResponse]
  /\ counter = [k \in LimiterKeys |-> 0]
  /\ handled = 0

\* fetch handles the request
FetchLoc(s, now) ==
  /\ pc[s] = "idle"
  /\ Fetch(s, request[s], now)

NextLoc ==
  \E s \in SeqSlots, now \in Times : FetchLoc(s, now)

SpecLoc ==
  InitLoc /\ [][NextLoc]_vars

(***************************************************************************)
(* Two isolates side by side: each handles one request after the other,    *)
(* they interleave at the await, and the limiter's window may end at any   *)
(* time, so that the same request is handled after different histories.    *)
(***************************************************************************)
PairSlots ==
  {1, 2}
\* requests handled in one behaviour of SpecPair
MaxPairRequests ==
  3

NextPair ==
  \/ /\ handled < MaxPairRequests
     /\ \E s \in PairSlots, req \in ConcRequests, now \in Times :
          Fetch(s, req, now)
  \/ \E s \in PairSlots, now \in Times : LimitReturns(s, now)
  \/ WindowReset

SpecPair ==
  Init /\ [][NextPair]_vars

(***************************************************************************)
(* GET / for every combination of the three IP headers: the handler        *)
(* resolves the IP, asks the limiter when it has one, and answers.  The    *)
(* window is fresh, or used up for every key.                              *)
(***************************************************************************)
InitHdr ==
  /\ \E h \in IpHeaderInputs :
       request = [s \in Slots |->
                    [method |-> "GET", pathname |-> "/", headers |-> h,
                     cf |-> Undefined]]
  /\ pc = [s \in Slots |-> "idle"]
  /\ ip = [s \in Slots |-> Undefined]
  /\ limited = [s \in Slots |-> <<>>]
  /\ success = [s \in Slots |-> <<>>]
  /\ response = [s \in Slots |-> NoResponse]
  /\ \E c \in {0, Quota} : counter = [k \in Strings(MaxLen) |-> c]
  /\ handled = 0

\* fetch handles the request
FetchHdr(s, now) ==
  /\ pc[s] = "idle"
  /\ Fetch(s, request[s], now)

NextHdr ==
  \/ \E s \in SeqSlots, now \in Times : FetchHdr(s, now)
  \/ \E s \in SeqSlots, now \in Times : LimitReturns(s, now)

SpecHdr ==
  InitHdr /\ [][NextHdr]_vars

(***************************************************************************)
(* One isolate whose limiter call may fail instead of answering.           *)
(***************************************************************************)
NextThrow ==
  \/ /\ handled < MaxRequests
     /\ \E s \in SeqSlots, req \in ConcRequests, now \in Times :
          Fetch(s, req, now)
  \/ \E s \in SeqSlots, now \in Times : LimitReturns(s, now)
  \/ \E s \in SeqSlots : LimitThrows(s)
  \/ WindowReset

SpecThrow ==
  Init /\ [][NextThrow]_vars

(***************************************************************************)
(* One isolate whose limiter call always returns: the platform resumes an  *)
(* invocation that awaits limit() once the limiter has answered.           *)
(***************************************************************************)
\* every method and path, without an IP header, with each header alone that
\* gives an IP, and with an X-Forwarded-For value that gives the empty IP
LiveRequests ==
  {r \in Requests :
     /\ r.cf = Undefined
     /\ r.headers \in {MkHeaders(Null, USER_AGENT, Null, Null),
                       MkHeaders(IP1, USER_AGENT, Null, Null),
                       MkHeaders(Null, USER_AGENT, Null, IP2),
                       MkHeaders(Null, USER_AGENT, XFF_EMPTY_FIRST, Null)}}

NextLive ==
  \/ /\ handled < MaxRequests
     /\ \E s \in SeqSlots, req \in LiveRequests, now \in Times :
          Fetch(s, req, now)
  \/ \E s \in SeqSlots, now \in Times : LimitReturns(s, now)
  \/ WindowReset

\* the same isolate without the proviso
SpecRoutes ==
  Init /\ [][NextLive]_vars

SpecLive ==
  /\ Init
  /\ [][NextLive]_vars
  /\ \A s \in SeqSlots : WF_vars(\E now \in Times : LimitReturns(s, now))

(***************************************************************************)
(* Properties.                                                             *)
(***************************************************************************)
\* slot s has returned its response
Done(s) ==
  pc[s] = "done"

\* the response carries header name with exactly this value
HeaderIs(resp, name, value) ==
  name \in DOMAIN resp.headers /\ resp.headers[name] = value

\* the body is JSON text denoting an object with exactly these keys, in order
JsonKeysAre(resp, keys) ==
  /\ resp.body.kind = "json"
  /\ resp.body.value.t = "object"
  /\ Keys(resp.body.value) = keys

Registered(pathname) ==
  pathname \in {"/", "/simple", "/debug"}

\* the limiter was not asked, or it granted the acquisition
NotRejected(s) ==
  success[s] \in {<<>>, <<TRUE>>}

\* C1: every OPTIONS request, whatever its path, headers and the limiter's
\* counter, is answered 204 with no body and the four CORS preflight headers.
C1_OptionsPreflight ==
  \A s \in Slots :
    Done(s) /\ request[s].method = "OPTIONS" =>
      /\ response[s].status = 204
      /\ response[s].body = NoBody
      /\ BodyText(response[s]) = <<>>
      /\ HeaderIs(response[s], "Access-Control-Allow-Origin", STAR)
      /\ HeaderIs(response[s], "Access-Control-Allow-Methods", GET_OPTIONS)
      /\ HeaderIs(response[s], "Access-Control-Allow-Headers", CONTENT_TYPE)
      /\ HeaderIs(response[s], "Access-Control-Max-Age", MAX_AGE)

\* an OPTIONS request to an unregistered path, carrying an IP whose quota is
\* used up, was answered
C1_Witness ==
  \E s \in Slots :
    /\ Done(s)
    /\ request[s].method = "OPTIONS"
    /\ request[s].pathname = "/api/ip"
    /\ getClientIp(request[s]) = IP1
    /\ counter[IP1.s] = Quota
    /\ response[s].status = 204

DebugHeadersMatch(s) ==
  LET h == Get(response[s].body.value, "headers")
  IN /\ h.t = "object"
     /\ \A n \in Range(HeaderNames) :
          IF HeadersGet(request[s].headers, n) = Null
            THEN ~HasKey(h, n)
            ELSE Get(h, n) = HeadersGet(request[s].headers, n)
     /\ Range(Keys(h)) \subseteq Range(HeaderNames)

C7_MethodBeforePath ==
  \A s \in Slots :
    Done(s) =>
      /\ request[s].method = "OPTIONS" => response[s].status = 204
      /\ request[s].method \notin {"GET", "OPTIONS"} =>
           response[s].status = 405
      /\ response[s].status = 404 =>
           request[s].method = "GET" /\ ~Registered(request[s].pathname)
      /\ response[s].status \in {200, 204, 404, 405, 429}

\* a POST to an unregistered path was answered 405
C7_Witness ==
  \E s \in Slots :
    /\ Done(s)
    /\ request[s].method = "POST"
    /\ request[s].pathname = "/api/ip"
    /\ response[s].status = 405

\* the value is a header that is present and not empty
NonEmpty(v) ==
  v.t = "string" /\ v.s # <<>>

\* the part of an X-Forwarded-For value before its first comma
FirstEntry(v) ==
  IF \E i \in 1..Len(v) : v[i] = ","
    THEN SubSeq(v, 1, (CHOOSE i \in 1..Len(v) :
                         v[i] = "," /\ \A j \in 1..(i - 1) : v[j] # ",") - 1)
    ELSE v

\* r is e without the spaces around it
IsTrimOf(r, e) ==
  /\ r = <<>> \/ (r[1] # " " /\ r[Len(r)] # " ")
  /\ \E i \in 0..Len(e) : \E j \in i..Len(e) :
       /\ r = SubSeq(e, i + 1, j)
       /\ \A k \in 1..i : e[k] = " "
       /\ \A k \in (j + 1)..Len(e) : e[k] = " "

\* C8: getClientIp returns the first non-empty of CF-Connecting-IP,
\* X-Real-IP and the trimmed first entry of X-Forwarded-For, and null when
\* none of the three is present or non-empty, for every combination of
\* absent, empty and present values.
C8_IpPrecedence ==
  \A s \in Slots :
    pc[s] = "resolved" =>
      LET cf == HeadersGet(request[s].headers, "cf-connecting-ip")
          xri == HeadersGet(request[s].headers, "x-real-ip")
          xff == HeadersGet(request[s].headers, "x-forwarded-for")
      IN /\ NonEmpty(cf) => ip[s] = cf
         /\ ~NonEmpty(cf) /\ NonEmpty(xri) => ip[s] = xri
         /\ ~NonEmpty(cf) /\ ~NonEmpty(xri) /\ NonEmpty(xff) =>
              /\ ip[s].t = "string"
              /\ IsTrimOf(ip[s].s, FirstEntry(xff.s))
         /\ ~NonEmpty(cf) /\ ~NonEmpty(xri) /\ ~NonEmpty(xff) => ip[s] = Null

\* an empty CF-Connecting-IP and an empty X-Real-IP were passed over for the
\* first entry, with a space after it, of X-Forwarded-For
C8_Witness ==
  \E s \in Slots :
    /\ pc[s] = "resolved"
    /\ HeadersGet(request[s].headers, "cf-connecting-ip") = Str(<<>>)
    /\ HeadersGet(request[s].headers, "x-real-ip") = Str(<<>>)
    /\ HeadersGet(request[s].headers, "x-forwarded-for")
         = Str(<<"2", " ", ",">>)
    /\ ip[s] = IP2

\* C9: a GET / request with a resolved (non-empty) IP calls the limiter
\* once, with that IP as the key; rejected, it is answered 429 with
\* Retry-After: 60 and the fixed message; granted, 200 with that ip.
C9_RateLimited ==
  \A s \in Slots :
    /\ pc[s] = "limit" => limited[s] = <<getClientIp(request[s]).s>>
    /\ Done(s) /\ request[s].method = "GET" /\ request[s].pathname = "/"
         /\ NonEmpty(getClientIp(request[s])) =>
           /\ limited[s] = <<getClientIp(request[s]).s>>
           /\ Len(success[s]) = 1
           /\ ~success[s][1] =>
                /\ response[s].status = 429
                /\ HeaderIs(response[s], "Retry-After", <<"6", "0">>)
                /\ JsonKeysAre(response[s], <<"error", "timestamp">>)
                /\ Get(response[s].body.value, "error") = Str(MSG_RATE_LIMIT)
           /\ success[s][1] =>
                /\ response[s].status = 200
                /\ response[s].body.kind = "json"
                /\ Get(response[s].body.value, "ip") = getClientIp(request[s])

\* a GET / from IP 2, whose quota was used up, was answered 429
C9_Witness ==
  \E s \in Slots :
    /\ Done(s)
    /\ request[s].method = "GET"
    /\ request[s].pathname = "/"
    /\ limited[s] = <<IP2.s>>
    /\ success[s] = <<FALSE>>
    /\ counter[IP2.s] = Quota
    /\ response[s].status = 429

\* the request carries none of the three IP headers, or only empty ones
NoIpHeader(req) ==
  /\ ~NonEmpty(HeadersGet(req.headers, "cf-connecting-ip"))
  /\ ~NonEmpty(HeadersGet(req.headers, "x-real-ip"))
  /\ ~NonEmpty(HeadersGet(req.headers, "x-forwarded-for"))

\* C10: a GET / request for which no IP can be resolved never calls the
\* limiter and is never answered 429: whatever came before, it gets 200
\* with ip null in the body.
C10_UnknownIpUnlimited ==
  \A s \in Slots :
    request[s].method = "GET" /\ request[s].pathname = "/"
      /\ NoIpHeader(request[s]) =>
        /\ pc[s] # "limit"
        /\ limited[s] = <<>>
        /\ Done(s) =>
             /\ response[s].status = 200
             /\ response[s].body.kind = "json"
             /\ Get(response[s].body.value, "ip") = Null

\* after an earlier request that used up the quota of its key, a GET /
\* without IP headers was answered
C10_Witness ==
  \E s \in Slots :
    /\ Done(s)
    /\ handled >= 2
    /\ request[s].method = "GET"
    /\ request[s].pathname = "/"
    /\ NoIpHeader(request[s])
    /\ \E k \in LimiterKeys : counter[k] = Quota
    /\ response[s].status = 200


\* the place of the last request in its burst, from 1 to BurstSize
BurstPosition ==
  ((handled - 1) % BurstSize) + 1

\* the number of successes the tests count on in a burst
SureSuccesses ==
  58

RETRY_AFTER_60 ==
  <<"6", "0">>

\* C11: of the 65 sequential GET / requests one address sends inside one
\* window, each of the first 58 is answered 200, and one of the others (the
\* last) is answered 429 with Retry-After: 60.
C11_SequentialBurst ==
  \A s \in SeqSlots :
    Done(s) =>
      /\ BurstPosition <= SureSuccesses => response[s].status = 200
      /\ BurstPosition = BurstSize =>
           /\ response[s].status = 429
           /\ HeaderIs(response[s], "Retry-After", RETRY_AFTER_60)

\* the 65th request of the first burst was answered
C11_Witness ==
  \E s \in SeqSlots :
    /\ Done(s)
    /\ handled = BurstSize
    /\ response[s].status = 429
    /\ counter[IP1.s] = Quota


\* C12: in a burst that follows a window in which the address was rate-limited
\* and starts in a fresh window, the counter has restarted from zero: each of
\* the first 60 requests is answered 200 and is counted as one acquisition
\* of the new window.
C12_FreshWindow ==
  \A s \in SeqSlots :
    Done(s) /\ handled > BurstSize /\ BurstPosition <= Quota =>
      /\ response[s].status = 200
      /\ counter[ip[s].s] = BurstPosition

\* the 60th request of the second burst was answered 200; the first burst
\* ended with five rejections
C12_Witness ==
  \E s \in SeqSlots :
    /\ Done(s)
    /\ handled = BurstSize + Quota
    /\ response[s].status = 200
    /\ success[s] = <<TRUE>>


\* the invocations that asked the limiter about key k and have answered
Asked(k) ==
  {s \in Slots : Done(s) /\ limited[s] = <<k>>}

\* those of them that answered 200
Granted(k) ==
  {s \in Asked(k) : response[s].status = 200}

Min(a, b) ==
  IF a <= b THEN a ELSE b

\* C13: in every interleaving of concurrent GET / requests from one key in a
\* window, the requests answered 200 together with the earlier acquisitions
\* of the window never exceed the quota, each answered request is counted
\* once, and every answered request beyond the quota has status 429.
C13_ConcurrentQuota ==
  \A k \in LimiterKeys :
    /\ ConcStart + Cardinality(Granted(k)) <= Quota
    /\ Cardinality(Granted(k)) =
         Min(Cardinality(Asked(k)), Quota - ConcStart)
    /\ \A s \in Asked(k) \ Granted(k) :
         /\ response[s].status = 429
         /\ success[s] = <<FALSE>>
    /\ \A s \in Slots :
         pc[s] = "limit" /\ limited[s] = <<k>> => Len(success[s]) = 0

\* two suspended invocations for one key raced for the last acquisition of
\* the window: one was answered 200, the other 429
C13_Witness ==
  \E s, t \in Slots :
    /\ s # t
    /\ Done(s) /\ Done(t)
    /\ limited[s] = <<IP1.s>> /\ limited[t] = <<IP1.s>>
    /\ response[s].status = 200
    /\ response[t].status = 429
    /\ counter[IP1.s] = Quota


\* C14: getLocationData yields an object for every metadata value; without
\* metadata every field of it is null; with metadata each of country, city,
\* region, timezone, asn and asOrganization is the metadata's value when the
\* metadata has the field and null when it has not, whatever other fields are
\* there; and the body of the answer carries these values.
C14_LocationTotal ==
  \A s \in SeqSlots :
    Done(s) =>
      LET cf == request[s].cf
          loc == getLocationData(cf)
          body == response[s].body.value
      IN /\ loc.t = "object"
         /\ ~Truthy(cf) =>
              \A i \in 1..Len(loc.props) : loc.props[i].v = Null
         /\ \A f \in ReliableFields :
              /\ HasKey(loc, f)
              /\ Get(loc, f) =
                   IF Truthy(cf) /\ HasKey(cf, f) THEN Get(cf, f) ELSE Null
              /\ HasKey(body, f)
              /\ Get(body, f) = Get(loc, f)

\* metadata with asn and country but no city was answered: city is null,
\* asn and country are the metadata's
C14_Witness ==
  \E s \in SeqSlots :
    /\ Done(s)
    /\ Truthy(request[s].cf)
    /\ Keys(request[s].cf) = <<"country", "asn">>
    /\ Get(response[s].body.value, "city") = Null
    /\ Get(response[s].body.value, "asn") = Num(7)
    /\ Get(response[s].body.value, "country") = Str(<<"U">>)


\* the answers the handler gives with a JSON body: 200 for / and /debug,
\* 404, 405 and 429
JsonAnswer(s) ==
  \/ response[s].status \in {404, 405, 429}
  \/ /\ response[s].status = 200
     /\ request[s].pathname \in {"/", "/debug"}

\* C15: every answer of status 404, 405 or 429 and every 200 for / and
\* /debug has a JSON body, and every answer with a JSON body carries
\* Access-Control-Allow-Origin: * and
\* Content-Type: application/json;charset=UTF-8.
C15_JsonHeaders ==
  \A s \in Slots :
    Done(s) =>
      /\ JsonAnswer(s) <=> response[s].body.kind = "json"
      /\ response[s].body.kind = "json" =>
           /\ HeaderIs(response[s], "Access-Control-Allow-Origin", STAR)
           /\ HeaderIs(response[s], "Content-Type", JSON_UTF8)

\* a 429, which createRateLimitResponse builds without createJsonResponse,
\* was returned with a JSON body
C15_Witness ==
  \E s \in Slots :
    /\ Done(s)
    /\ response[s].status = 429
    /\ response[s].body.kind = "json"
    /\ DOMAIN response[s].headers =
         {"Content-Type", "Retry-After", "Access-Control-Allow-Origin"}


\* the headers that forbid caching
NoCacheHeaders(resp) ==
  /\ HeaderIs(resp, "Cache-Control", NO_STORE)
  /\ HeaderIs(resp, "Pragma", NO_CACHE)
  /\ HeaderIs(resp, "Expires", ZERO)

\* C16: every answer with status 200, 404, 405 or 429, the plain text of
\* /simple included, carries Cache-Control: no-store, no-cache,
\* must-revalidate, proxy-revalidate with Pragma: no-cache and Expires: 0.
C16_NoCache ==
  \A s \in Slots :
    Done(s) /\ response[s].status \in {200, 404, 405, 429} =>
      NoCacheHeaders(response[s])


\* the fixed message of each error status
ErrorMessage(status) ==
  CASE status = 404 -> Str(MSG_NOT_FOUND)
    [] status = 405 -> Str(MSG_METHOD)
    [] status = 429 -> Str(MSG_RATE_LIMIT)

\* C17: every answer has a status in {200, 204, 404, 405, 429}; the body of
\* every 404, 405 and 429 is a JSON object with exactly the fields error and
\* timestamp, error being the fixed message of that status; and Retry-After
\* is a header of the answer exactly when the status is 429.
C17_ErrorTaxonomy ==
  \A s \in Slots :
    Done(s) =>
      /\ response[s].status \in {200, 204, 404, 405, 429}
      /\ response[s].status \in {404, 405, 429} =>
           /\ JsonKeysAre(response[s], <<"error", "timestamp">>)
           /\ Get(response[s].body.value, "error") =
                ErrorMessage(response[s].status)
           /\ Get(response[s].body.value, "timestamp").t = "string"
      /\ "Retry-After" \in DOMAIN response[s].headers
           <=> response[s].status = 429

\* a 405 was returned: an error body, an Allow header and no Retry-After
C17_Witness ==
  \E s \in Slots :
    /\ Done(s)
    /\ response[s].status = 405
    /\ Keys(response[s].body.value) = <<"error", "timestamp">>
    /\ "Allow" \in DOMAIN response[s].headers
    /\ "Retry-After" \notin DOMAIN response[s].headers


\* C18: an invocation passes at most one key to the limiter and gets at most
\* one answer for it; it does so only for a GET request to /, and only with
\* the resolved IP as the key; it is suspended exactly while that one call
\* is outstanding, and once it has answered it has not called again.
C18_LimiterOnce ==
  \A s \in Slots :
    /\ Len(limited[s]) <= 1
    /\ Len(success[s]) <= Len(limited[s])
    /\ limited[s] # <<>> =>
         /\ request[s].method = "GET"
         /\ request[s].pathname = "/"
         /\ limited[s] = <<getClientIp(request[s]).s>>
    /\ pc[s] = "limit" <=> Len(limited[s]) = 1 /\ Len(success[s]) = 0
    /\ Done(s) => Len(success[s]) = Len(limited[s])

\* a GET / was rejected by the limiter and answered 429 after that one call
C18_Witness ==
  \E s \in Slots :
    /\ Done(s)
    /\ limited[s] = <<IP1.s>>
    /\ success[s] = <<FALSE>>
    /\ response[s].status = 429
    /\ handled = 2


\* a response with the timestamp taken out of its JSON body
WithoutTimestamp(resp) ==
  IF resp.body.kind = "json" /\ resp.body.value.t = "object"
    THEN [resp EXCEPT !.body.value.props =
            SelectSeq(@, LAMBDA p : p.k # "timestamp")]
    ELSE resp

\* C19: two invocations that handled the same request (method, path, headers
\* and metadata) and got the same answer from the limiter, or both none,
\* returned the same status, headers and body apart from the timestamp,
\* whatever was handled before each of them.
C19_Stateless ==
  \A s, t \in PairSlots :
    Done(s) /\ Done(t) /\ request[s] = request[t] /\ success[s] = success[t]
      => WithoutTimestamp(response[s]) = WithoutTimestamp(response[t])

\* the same GET / was granted in both isolates, three requests were handled
\* in all and a window ended between the two grants (one acquisition is
\* counted), and the answers differ, which can only be in the timestamp
C19_Witness ==
  \E s, t \in PairSlots :
    /\ Done(s) /\ Done(t)
    /\ handled >= 3
    /\ request[s] = request[t]
    /\ success[s] = <<TRUE>> /\ success[t] = <<TRUE>>
    /\ response[s] # response[t]
    /\ counter[ip[s].s] = 1


\* C20: when an invocation that asked the limiter about key k answers, its
\* status is 429 exactly when the quota of k itself was used up and 200
\* otherwise, whatever the counters of the other keys are, and the counters
\* of the other keys are left as they were.
C20_PerKeyQuota ==
  [][\A s \in PairSlots :
       pc[s] = "limit" /\ pc'[s] = "done" =>
         LET k == limited[s][1]
         IN /\ response'[s].status = 429 <=> counter[k] >= Quota
            /\ response'[s].status = 200 <=> counter[k] < Quota
            /\ counter'[k] = IF counter[k] < Quota
                               THEN counter[k] + 1 ELSE counter[k]
            /\ \A j \in LimiterKeys \ {k} : counter'[j] = counter[j]]_vars

\* a GET / resolved to the second address was answered 200 while the quota of
\* the first address was used up
C20_Witness ==
  \E s \in PairSlots :
    /\ Done(s)
    /\ limited[s] = <<IP2.s>>
    /\ response[s].status = 200
    /\ counter[IP1.s] = Quota
    /\ counter[IP2.s] < Quota


\* C21: of the sequential GET / requests one address sends inside one window,
\* exactly the first 60 are answered 200 and every later one is answered
\* 429, the counter staying at the quota until the window ends after the
\* last request.
C21_ExactQuota ==
  \A s \in SeqSlots :
    Done(s) =>
      /\ BurstPosition <= Quota =>
           /\ response[s].status = 200
           /\ counter[ip[s].s] = BurstPosition
      /\ BurstPosition > Quota =>
           /\ response[s].status = 429
           /\ \/ counter[ip[s].s] = Quota
              \/ BurstOver /\ counter[ip[s].s] = 0

\* the 61st request of a burst, the first beyond the quota, was answered 429
C21_Witness ==
  \E s \in SeqSlots :
    /\ Done(s)
    /\ BurstPosition = Quota + 1
    /\ response[s].status = 429
    /\ success[s] = <<FALSE>>


\* the step is slot s receiving a request: one more request is handled and
\* no other slot moves
Receives(s) ==
  /\ handled' = handled + 1
  /\ \A t \in PairSlots \ {s} :
       /\ request'[t] = request[t]
       /\ pc'[t] = pc[t]
       /\ response'[t] = response[t]

\* C22: an invocation that receives a GET /simple request answers at once
\* with status 200, passes no key to the limiter and gets no answer from it,
\* and leaves the counter of every key as it was, also when the quota of the
\* request's address is used up.
C22_SimpleUnlimited ==
  [][\A s \in PairSlots :
       Receives(s) /\ request'[s].method = "GET"
         /\ request'[s].pathname = "/simple" =>
           /\ pc'[s] = "done"
           /\ limited'[s] = <<>>
           /\ success'[s] = <<>>
           /\ response'[s].status = 200
           /\ counter' = counter]_vars

\* a GET /simple from an address whose quota is used up was answered 200
C22_Witness ==
  \E s \in PairSlots :
    /\ Done(s)
    /\ request[s].method = "GET"
    /\ request[s].pathname = "/simple"
    /\ getClientIp(request[s]) = IP1
    /\ counter[IP1.s] = Quota
    /\ response[s].status = 200
    /\ limited[s] = <<>>


\* of the three IP headers only X-Forwarded-For has a value
OnlyForwardedFor(req) ==
  /\ ~NonEmpty(HeadersGet(req.headers, "cf-connecting-ip"))
  /\ ~NonEmpty(HeadersGet(req.headers, "x-real-ip"))
  /\ NonEmpty(HeadersGet(req.headers, "x-forwarded-for"))

\* the request with another X-Forwarded-For value
WithForwardedFor(req, v) ==
  [req EXCEPT !.headers =
     [n \in DOMAIN @ |-> IF n = "x-forwarded-for" THEN Str(v) ELSE @[n]]]

\* C23: when only X-Forwarded-For has a value, getClientIp returns the part
\* of it before the first comma without the spaces around it, and returns the
\* same for every other value that has the same part before its first comma.
C23_ForwardedFirst ==
  \A s \in Slots :
    pc[s] = "resolved" /\ OnlyForwardedFor(request[s]) =>
      LET xff == HeadersGet(request[s].headers, "x-forwarded-for").s
      IN /\ ip[s].t = "string"
         /\ IsTrimOf(ip[s].s, FirstEntry(xff))
         /\ \A v \in Strings(MaxLen) :
              v # <<>> /\ FirstEntry(v) = FirstEntry(xff) =>
                getClientIp(WithForwardedFor(request[s], v)) = ip[s]

\* X-Forwarded-For "1,2" alone was resolved to "1"
C23_Witness ==
  \E s \in Slots :
    /\ pc[s] = "resolved"
    /\ OnlyForwardedFor(request[s])
    /\ HeadersGet(request[s].headers, "x-forwarded-for").s = <<"1", ",", "2">>
    /\ ip[s] = IP1


\* C24: the body of every 200 answer to GET / is a JSON object whose keys
\* are ip, asn, asOrganization, city, region, country, timezone and
\* timestamp, these eight and no other, in this order, whatever the metadata
\* object holds.
C24_EightKeys ==
  \A s \in SeqSlots :
    Done(s) /\ response[s].status = 200 =>
      JsonKeysAre(response[s],
        <<"ip", "asn", "asOrganization", "city", "region", "country",
          "timezone", "timestamp">>)


\* the request is answered before the handler looks for the client's IP
NoLookup(req) ==
  /\ req.method \in Methods
  /\ Route(req) \in {"options", "methodNotAllowed", "notFound", "debug"}

\* C25: an invocation that receives an OPTIONS request, a request with a
\* method other than GET, a GET for an unmatched path or a GET /debug answers
\* at once with 204, 405, 404 or 200, passes no key to the limiter, and
\* leaves the counter of every key as it was, whatever the counters are.
C25_NoLookupNoLimiter ==
  [][\A s \in SeqSlots :
       Receives(s) /\ NoLookup(request'[s]) =>
         /\ pc'[s] = "done"
         /\ limited'[s] = <<>>
         /\ success'[s] = <<>>
         /\ response'[s].status \in {200, 204, 404, 405}
         /\ counter' = counter]_vars

\* a POST from an address whose quota is used up was answered 405 and the
\* counter is still at the quota
C25_Witness ==
  \E s \in SeqSlots :
    /\ Done(s)
    /\ request[s].method = "POST"
    /\ request[s].pathname = "/"
    /\ getClientIp(request[s]) = IP1
    /\ counter[IP1.s] = Quota
    /\ response[s].status = 405


\* every choice of X-Real-IP and X-Forwarded-For
OtherHeaders ==
  {h \in IpHeaderInputs : h["cf-connecting-ip"] = Null}

\* the request with other X-Real-IP and X-Forwarded-For headers
WithOtherHeaders(req, h) ==
  [req EXCEPT !.headers =
     [n \in DOMAIN @ |-> IF n \in {"x-real-ip", "x-forwarded-for"}
                           THEN h[n] ELSE @[n]]]

\* C26: for a GET / with a non-empty CF-Connecting-IP the key passed to the
\* limiter and the ip of the 200 body are that header's value, and the
\* resolved IP is the same for every other choice of X-Real-IP and
\* X-Forwarded-For.
C26_ConnectingIpDecides ==
  \A s \in SeqSlots :
    LET cf == HeadersGet(request[s].headers, "cf-connecting-ip")
    IN NonEmpty(cf) /\ pc[s] # "idle" =>
         /\ ip[s] = cf
         /\ limited[s] = <<cf.s>>
         /\ Done(s) => response[s].status \in {200, 429}
         /\ Done(s) /\ response[s].status = 200 =>
              Get(response[s].body.value, "ip") = cf
         /\ \A h \in OtherHeaders :
              getClientIp(WithOtherHeaders(request[s], h)) = ip[s]

\* a GET / with CF-Connecting-IP "1", X-Real-IP "2" and X-Forwarded-For
\* "2,1" was answered 200 with ip "1"
C26_Witness ==
  \E s \in SeqSlots :
    /\ Done(s)
    /\ HeadersGet(request[s].headers, "cf-connecting-ip") = IP1
    /\ HeadersGet(request[s].headers, "x-real-ip") = IP2
    /\ HeadersGet(request[s].headers, "x-forwarded-for") = Str(<<"2", ",", "1">>)
    /\ response[s].status = 200
    /\ Get(response[s].body.value, "ip") = IP1
    /\ limited[s] = <<IP1.s>>


\* C27: whatever the three IP headers hold, the IP the handler resolves is
\* null or a string that is not empty, and the ip of every 200 body that is
\* not null was passed to the limiter as the key.
C27_NeverEmpty ==
  \A s \in SeqSlots :
    /\ pc[s] # "idle" => ip[s] = Null \/ NonEmpty(ip[s])
    /\ Done(s) /\ response[s].status = 200
         /\ Get(response[s].body.value, "ip") # Null =>
           limited[s] = <<Get(response[s].body.value, "ip").s>>


\* C28: when an invocation leaves its await without an answer of the limiter,
\* it has failed and has returned no Response, neither the 200 with the
\* client's data nor the 429; and a failed invocation never has a Response.
C28_FailClosed ==
  /\ [](\A s \in SeqSlots : pc[s] = "failed" => response[s] = NoResponse)
  /\ [][\A s \in SeqSlots :
          pc[s] = "limit" /\ pc'[s] # "limit" /\ success'[s] = success[s] =>
            /\ pc'[s] = "failed"
            /\ response'[s] = NoResponse]_vars

\* the limiter call of a GET / with a resolved IP failed
C28_Witness ==
  \E s \in SeqSlots :
    /\ pc[s] = "failed"
    /\ request[s].method = "GET"
    /\ request[s].pathname = "/"
    /\ limited[s] = <<IP1.s>>
    /\ success[s] = <<>>
    /\ response[s] = NoResponse


\* C29: an invocation that awaits the limiter eventually returns a Response;
\* every other request is answered in the step that receives it; an
\* invocation has a Response exactly when it is done, so none is left
\* pending; and a Response once returned is not replaced until the slot
\* receives its next request.
C29_OneResponse ==
  /\ \A s \in SeqSlots : (pc[s] = "limit") ~> (pc[s] = "done")
  /\ [](\A s \in SeqSlots :
          /\ pc[s] \in {"idle", "limit", "done"}
          /\ pc[s] = "done" <=> response[s] # NoResponse
          /\ pc[s] = "idle" <=> request[s] = NoRequest)
  /\ [][\A s \in SeqSlots :
          /\ Receives(s) => pc'[s] \in {"limit", "done"}
          /\ handled' = handled /\ response[s] # NoResponse =>
               response'[s] = response[s]]_vars

\* a GET / was suspended at the limiter, resumed and answered 200
C29_Witness ==
  \E s \in SeqSlots :
    /\ Done(s)
    /\ limited[s] = <<IP2.s>>
    /\ success[s] = <<TRUE>>
    /\ response[s].status = 200
    /\ handled = 1

=============================================================================
